---- MODULE Spec2Model ----
(***************************************************************************)
(* bevy_gif_capturer (src/src/lib.rs): the GifCapturePlugin's systems as a *)
(* state machine.  One render tick of the host runs, in this order,        *)
(*   the App update      read_capture_events_and_tick_timer                *)
(*   RenderStage::Extract  extract_settings, extract_gif_capture           *)
(*   RenderStage::Prepare  create_buffer                                   *)
(*   the render graph    DispatchGifCapture::run                           *)
(*   stage get_gif_data  write_gif, save_gif_on_state (no order declared)  *)
(* Commands (insert_resource) are deferred: they are applied when the      *)
(* stage that queued them ends.  A failed unwrap() is a panic, which ends  *)
(* the run.  Resources the host always provides (Windows, RenderDevice)    *)
(* are taken to be present.                                                *)
(*                                                                         *)
(* Spec, FairSpec  the plugin's ticks                                      *)
(* NewSpec         GifCaptureSettings::new on drawn arguments              *)
(* BufferSpec      get_buffer_size and create_buffer's size on drawn       *)
(*                 window dimensions                                       *)
(* DepadSpec       write_gif's de-padding on drawn frames                  *)
(***************************************************************************)
EXTENDS Integers, Sequences, FiniteSets, TLC

VARIABLES
    pc,               \* position inside the tick, or "panicked"
    tick,             \* number of ticks begun
    events,           \* unread GifCaptureStartEvents the EventReader sees this tick
    surface,          \* the primary window's surface this tick
    timer,            \* GifTime.timer (App world)
    settings,         \* GifCaptureSettings (App world)
    render_settings,  \* GifCaptureSettings (Render world), None before the first extract
    state,            \* GifCaptureState (Render world)
    frames,           \* GifCaptureFrames.0 (Render world)
    buffer,           \* GifBuffer (Render world), None before the first create_buffer
    commands,         \* Commands queued in the running stage
    ran,              \* systems of stage get_gif_data that have run this tick
    file,             \* the file at settings.path, None while it does not exist
    hist,             \* history of the run, read only by the properties
    call              \* a function called on its own: its name, arguments and result

vars == <<pc, tick, events, surface, timer, settings, render_settings, state,
          frames, buffer, commands, ran, file, hist, call>>

MaxTicks == 5
MaxDelta == 2
MaxEvents == 2
MaxDuration == 2
MaxRepeat == 1

\* GifCaptureSettings::default().speed
DefaultSpeed == 10

Off == "Off"
CurrentlyCapturing == "CurrentlyCapturing"
JustFinishedCapturing == "JustFinishedCapturing"

GifCaptureState == {Off, CurrentlyCapturing, JustFinishedCapturing}

\* Option<T>: None, or Some(x) holding x at index 1.
None == <<>>
Some(x) == <<x>>

\* gif::Repeat, and the state of a file whose repeat extension is not written.
Infinite == <<"Infinite">>
Finite(n) == <<"Finite", n>>
Unset == <<"unset">>
Repeats == {Infinite} \cup {Finite(n) : n \in 0..MaxRepeat}

\* surface: "ok" the surface has a current texture; "absent" the window has no
\* surface in WindowSurfaces; "no_texture" get_current_texture() returns Err.
Surfaces == {"ok", "absent", "no_texture"}

----------------------------------------------------------------------------
\* bevy's Timer, non-repeating and never paused, as GifTime uses it.

TimerDefault == [elapsed |-> 0, duration |-> 0, finished |-> FALSE, times_finished |-> 0]

TimerTick(t, delta) ==
    IF t.finished
    THEN [t EXCEPT !.times_finished = 0]
    ELSE IF t.elapsed + delta >= t.duration
         THEN [t EXCEPT !.elapsed = t.duration, !.finished = TRUE, !.times_finished = 1]
         ELSE [t EXCEPT !.elapsed = t.elapsed + delta, !.times_finished = 0]

TimerSetDuration(t, d) == [t EXCEPT !.duration = d]

TimerReset(t) == [t EXCEPT !.elapsed = 0, !.finished = FALSE, !.times_finished = 0]

TimerJustFinished(t) == t.times_finished > 0

----------------------------------------------------------------------------
HistInit ==
    [ stateAtBegin  |-> Off,     \* state when the tick began
      framesAtBegin |-> <<>>,    \* the frame store when the tick began
      capTicks      |-> 0,       \* ticks spent in CurrentlyCapturing since the last encode
      allOk         |-> TRUE,    \* the surface was "ok" in every tick so far
      jfSinceReset  |-> 0,       \* JustFinishedCapturing insertions since the last timer reset
      jfThisTick    |-> FALSE,   \* extract_gif_capture queued JustFinishedCapturing this tick
      expired       |-> FALSE,   \* the timer reported just_finished after this tick's tick()
      encodes       |-> 0,       \* save_gif calls so far
      encodesThisTick |-> 0,     \* save_gif calls in this tick
      capBetween    |-> TRUE,    \* a CurrentlyCapturing tick since the last save_gif call
      encodeNoCap   |-> FALSE,   \* some save_gif call had no such tick since the one before
      saved         |-> "none",  \* outcome of the last save_gif call: "none", "Ok", "panic"
      ioKind        |-> "none",  \* what the file system and encoder did in that call
      capAtEncode   |-> 0,       \* capTicks when that call was made
      storeAtEncode |-> <<>> ]   \* the frame store handed to the last save_gif call

\* No function is being called on its own.
NoCall == [fn |-> "none"]

\* The plugin as GifCapturePlugin::build leaves it, with settings drawn from S.
InitPlugin(S) ==
    /\ pc = "begin"
    /\ tick = 0
    /\ events = 0
    /\ surface = "ok"
    /\ timer = TimerDefault
    /\ settings \in S
    /\ render_settings = None
    /\ state = Off
    /\ frames = <<>>
    /\ buffer = None
    /\ commands = <<>>
    /\ ran = {}
    /\ file = None
    /\ hist = HistInit

SettingsInUse == [duration : 0..MaxDuration, repeat : Repeats, speed : {DefaultSpeed}]

Init == InitPlugin(SettingsInUse) /\ call = NoCall

\* The host begins a frame: user code may raise start events, the surface may be lost.
BeginTick ==
    /\ pc = "begin"
    /\ tick < MaxTicks
    /\ tick' = tick + 1
    /\ \E n \in 0..MaxEvents : events' = n
    /\ \E s \in Surfaces :
         /\ surface' = s
         /\ hist' = [hist EXCEPT !.stateAtBegin = state, !.framesAtBegin = frames,
                                 !.jfThisTick = FALSE, !.encodesThisTick = 0,
                                 !.expired = FALSE,
                                 !.allOk = @ /\ s = "ok"]
    /\ pc' = "update"
    /\ UNCHANGED <<call, timer, settings, render_settings, state, frames, buffer, commands, ran, file>>

\* Time::delta(): zero in the first update only, positive afterwards.
Deltas(n) == (IF n = 1 THEN 0 ELSE 1)..MaxDelta

read_capture_events_and_tick_timer ==
    /\ pc = "update"
    /\ \E delta \in Deltas(tick) : timer' = TimerTick(timer, delta)
    /\ hist' = [hist EXCEPT !.expired = TimerJustFinished(timer')]
    /\ pc' = "extract_settings"
    /\ UNCHANGED <<call, tick, events, surface, settings, render_settings, state, frames,
                   buffer, commands, ran, file>>

----------------------------------------------------------------------------
\* Commands: a queue of insert_resource calls, applied in order at the end of
\* the stage.  res is the Render world's [state, render_settings, buffer].

InsertResource(res, cmd) ==
    IF cmd[1] = "state" THEN [res EXCEPT !.state = cmd[2]]
    ELSE IF cmd[1] = "settings" THEN [res EXCEPT !.render_settings = cmd[2]]
    ELSE [res EXCEPT !.buffer = cmd[2]]

RECURSIVE ApplyCommands(_, _)
ApplyCommands(cmds, res) ==
    IF cmds = <<>> THEN res
    ELSE ApplyCommands(Tail(cmds), InsertResource(res, Head(cmds)))

RenderWorld == [state |-> state, render_settings |-> render_settings, buffer |-> buffer]

ApplyBuffers ==
    LET res == ApplyCommands(commands, RenderWorld) IN
    /\ state' = res.state
    /\ render_settings' = res.render_settings
    /\ buffer' = res.buffer
    /\ commands' = <<>>

----------------------------------------------------------------------------
\* RenderStage::Extract

extract_settings ==
    /\ pc = "extract_settings"
    /\ commands' = Append(commands, <<"settings", Some(settings)>>)
    /\ pc' = "extract_gif_capture"
    /\ UNCHANGED <<call, tick, events, surface, timer, settings, render_settings, state,
                   frames, buffer, ran, file, hist>>

\* A variant that does not reset the timer on a start event.
ExtractTimerNoReset(t, n, duration) == TimerSetDuration(t, duration)

\* The timer as extract_gif_capture leaves it: set_duration, then reset() when
\* the EventReader is not empty.
ExtractTimer(t, n, duration) ==
    IF n > 0 THEN TimerReset(TimerSetDuration(t, duration))
    ELSE TimerSetDuration(t, duration)

\* A variant that reads just_finished() before the reset.
ExtractCommandsCheckFirst(t, n, duration) ==
    (IF n > 0 THEN << <<"state", CurrentlyCapturing>> >> ELSE <<>>)
    \o (IF TimerJustFinished(TimerSetDuration(t, duration))
        THEN << <<"state", JustFinishedCapturing>> >> ELSE <<>>)

\* The commands extract_gif_capture queues, in order.
ExtractCommands(t, n, duration) ==
    (IF n > 0 THEN << <<"state", CurrentlyCapturing>> >> ELSE <<>>)
    \o (IF TimerJustFinished(ExtractTimer(t, n, duration))
        THEN << <<"state", JustFinishedCapturing>> >> ELSE <<>>)

extract_gif_capture ==
    /\ pc = "extract_gif_capture"
    /\ timer' = ExtractTimer(timer, events, settings.duration)
    /\ commands' = commands \o ExtractCommands(timer, events, settings.duration)
    /\ LET jf == <<"state", JustFinishedCapturing>> \in
                   {ExtractCommands(timer, events, settings.duration)[i] :
                      i \in 1..Len(ExtractCommands(timer, events, settings.duration))}
           n0 == IF events > 0 THEN 0 ELSE hist.jfSinceReset
       IN hist' = [hist EXCEPT !.jfThisTick = jf,
                               !.jfSinceReset = IF jf THEN n0 + 1 ELSE n0]
    /\ pc' = "extract_end"
    /\ UNCHANGED <<call, tick, events, surface, settings, render_settings, state, frames,
                   buffer, ran, file>>

ExtractStageEnd ==
    /\ pc = "extract_end"
    /\ ApplyBuffers
    /\ hist' = [hist EXCEPT
                  !.capTicks = IF state' = CurrentlyCapturing THEN @ + 1 ELSE @,
                  !.capBetween = @ \/ state' = CurrentlyCapturing]
    /\ pc' = "prepare"
    /\ UNCHANGED <<call, tick, events, surface, timer, settings, frames, ran, file>>

----------------------------------------------------------------------------
\* RenderStage::Prepare

\* mem::size_of::<[u8; 4]>().  The u32 product PixelSize * width wraps only for
\* widths of 2^30 and more, far above the widths drawn here.
PixelSize == 4

\* wgpu::COPY_BYTES_PER_ROW_ALIGNMENT
COPY_BYTES_PER_ROW_ALIGNMENT == 256

\* RenderDevice::align_copy_bytes_per_row
align_copy_bytes_per_row(row_bytes) ==
    row_bytes + ((COPY_BYTES_PER_ROW_ALIGNMENT - (row_bytes % COPY_BYTES_PER_ROW_ALIGNMENT))
                   % COPY_BYTES_PER_ROW_ALIGNMENT)

\* A variant that leaves the row as it is.
get_buffer_size_unaligned(width, height) ==
    << PixelSize * width, PixelSize * width, PixelSize * width * height >>

\* <<unpadded_bytes_per_row, padded_bytes_per_row, buffer_size>>
get_buffer_size(width, height) ==
    LET unpadded_bytes_per_row == PixelSize * width
        padded_bytes_per_row == align_copy_bytes_per_row(unpadded_bytes_per_row)
    IN << unpadded_bytes_per_row, padded_bytes_per_row, padded_bytes_per_row * height >>

\* The size create_buffer gives the BufferDescriptor: the first element of the
\* tuple get_buffer_size returns.
BufferDescriptorSize(width, height) == get_buffer_size(width, height)[1]

\* The primary window, in pixels.
WindowWidth == 4
WindowHeight == 4

\* The buffer create_buffer makes: fresh, holding no copy of the surface yet.
NewBuffer(t) ==
    [tick |-> t, copied |-> FALSE, mapped |-> FALSE,
     size |-> BufferDescriptorSize(WindowWidth, WindowHeight)]

create_buffer ==
    /\ pc = "prepare"
    /\ commands' = Append(commands, <<"buffer", Some(NewBuffer(tick))>>)
    /\ pc' = "prepare_end"
    /\ UNCHANGED <<call, tick, events, surface, timer, settings, render_settings, state,
                   frames, buffer, ran, file, hist>>

PrepareStageEnd ==
    /\ pc = "prepare_end"
    /\ ApplyBuffers
    /\ pc' = "render"
    /\ UNCHANGED <<call, tick, events, surface, timer, settings, frames, ran, file, hist>>

----------------------------------------------------------------------------
\* The render graph node.  "skip": nothing is copied; "copy": the surface
\* texture is copied into the buffer; "panic": get_current_texture().unwrap().
DispatchOutcome(st, surf, buf) ==
    IF st = CurrentlyCapturing /\ surf # "absent" /\ buf # None
    THEN IF surf = "no_texture" THEN "panic" ELSE "copy"
    ELSE "skip"

DispatchGifCapture_run ==
    /\ pc = "render"
    /\ LET o == DispatchOutcome(state, surface, buffer) IN
         /\ pc' = IF o = "panic" THEN "panicked" ELSE "get_gif_data"
         /\ buffer' = IF o = "copy" THEN Some([buffer[1] EXCEPT !.copied = TRUE]) ELSE buffer
    /\ UNCHANGED <<call, tick, events, surface, timer, settings, render_settings, state,
                   frames, commands, ran, file, hist>>

----------------------------------------------------------------------------
\* Stage get_gif_data: write_gif and save_gif_on_state, in either order.

\* The frame write_gif reads from the mapped buffer; opaque: every pixel's alpha
\* is 0xFF, which a captured frame is not known to be.
MappedFrame(b) == [tick |-> b.tick, copied |-> b.copied, opaque |-> FALSE]

\* The frame store after write_gif: the de-padded bytes of the mapped buffer
\* are pushed, whatever the capture state.
WriteGifFrames(fr, st, buf) == Append(fr, MappedFrame(buf[1]))

\* The buffer after write_gif: map_buffer maps it, the mapped range is dropped,
\* and unmap() is not called.
BufferAfterWriteGif(buf) == Some([buf[1] EXCEPT !.mapped = TRUE])

write_gif ==
    /\ pc = "get_gif_data"
    /\ "write_gif" \notin ran
    /\ frames' = WriteGifFrames(frames, state, buffer)
    /\ buffer' = BufferAfterWriteGif(buffer)
    /\ ran' = ran \cup {"write_gif"}
    /\ UNCHANGED <<call, pc, tick, events, surface, timer, settings, render_settings, state,
                   commands, file, hist>>

\* What the file system and the gif encoder do with one save_gif call.
\* kind: "ok"; "create" File::create fails; "encoder" Encoder::new fails;
\* "repeat" set_repeat fails; "write" write_frame fails at frame number at.
IoOutcomes(fr) ==
    [kind : {"ok", "create", "encoder", "repeat"}, at : {0}]
    \cup [kind : {"write"}, at : 1..Len(fr)]

\* Frame::from_rgba_speed on a clone of the stored frame.
Frame_from_rgba_speed(f, speed) == [src |-> f, speed |-> speed]

EncodedFrames(fr, n, speed) == [i \in 1..n |-> Frame_from_rgba_speed(fr[i], speed)]

\* The repeat mode save_gif hands to encoder.set_repeat.
RepeatWritten(s) == Infinite

\* The pixel slice handed to Frame::from_rgba_speed, as the call leaves it:
\* the conversion writes into the slice (alpha becomes 0xFF).
PixelsAfterConversion(f) == [f EXCEPT !.opaque = TRUE]

\* A variant that hands the stored frames themselves to the conversion.
StoreAfterEncodeInPlace(fr, n) ==
    [i \in 1..Len(fr) |-> IF i <= n THEN PixelsAfterConversion(fr[i]) ELSE fr[i]]

\* The frame store after the first n frames were converted: each conversion
\* got frame.clone(), so the stored frames are as they were.
StoreAfterEncode(fr, n) == fr

\* save_gif: [ret, file, store]; ret is "Ok" or "panic" (no path returns Err).
save_gif(s, fr, io, old) ==
    IF io.kind = "create" THEN [ret |-> "panic", file |-> old, store |-> fr]
    ELSE IF io.kind = "encoder"
         THEN [ret |-> "Ok", file |-> Some([repeat |-> Unset, frames |-> <<>>]),
               store |-> fr]
    ELSE IF io.kind = "repeat"
         THEN [ret |-> "panic", file |-> Some([repeat |-> Unset, frames |-> <<>>]),
               store |-> fr]
    ELSE IF io.kind = "write"
         THEN [ret |-> "panic",
               file |-> Some([repeat |-> RepeatWritten(s),
                              frames |-> EncodedFrames(fr, io.at - 1, s.speed)]),
               store |-> StoreAfterEncode(fr, io.at)]
    ELSE [ret |-> "Ok",
          file |-> Some([repeat |-> RepeatWritten(s),
                         frames |-> EncodedFrames(fr, Len(fr), s.speed)]),
          store |-> StoreAfterEncode(fr, Len(fr))]

\* A variant that leaves the state as it was after the encode.
SaveCommandsNoReset == <<>>

\* The commands save_gif_on_state queues when save_gif returned.
SaveCommands == << <<"state", Off>> >>

\* A variant that encodes in the wrong match arm.
SaveGuardWhileCapturing(st) == st = CurrentlyCapturing

\* Whether save_gif_on_state calls save_gif.
SaveGuard(st) == st = JustFinishedCapturing

save_gif_on_state ==
    /\ pc = "get_gif_data"
    /\ "save_gif_on_state" \notin ran
    /\ ran' = ran \cup {"save_gif_on_state"}
    /\ IF SaveGuard(state)
       THEN \E io \in IoOutcomes(frames) :
              LET r == save_gif(render_settings[1], frames, io, file) IN
              /\ file' = r.file
              /\ frames' = r.store
              /\ pc' = IF r.ret = "panic" THEN "panicked" ELSE pc
              /\ commands' = IF r.ret = "panic" THEN commands ELSE commands \o SaveCommands
              /\ hist' = [hist EXCEPT
                            !.encodes = @ + 1,
                            !.encodesThisTick = @ + 1,
                            !.encodeNoCap = @ \/ (hist.encodes > 0 /\ ~hist.capBetween),
                            !.capBetween = FALSE,
                            !.capAtEncode = hist.capTicks,
                            !.capTicks = 0,
                            !.saved = r.ret,
                            !.ioKind = io.kind,
                            !.storeAtEncode = frames]
       ELSE UNCHANGED <<pc, commands, file, frames, hist>>
    /\ UNCHANGED <<call, tick, events, surface, timer, settings, render_settings, state,
                   buffer>>

GetGifDataStageEnd ==
    /\ pc = "get_gif_data"
    /\ ran = {"write_gif", "save_gif_on_state"}
    /\ ApplyBuffers
    /\ ran' = {}
    /\ pc' = "begin"
    /\ UNCHANGED <<call, tick, events, surface, timer, settings, frames, file, hist>>

----------------------------------------------------------------------------
Next ==
    \/ BeginTick
    \/ read_capture_events_and_tick_timer
    \/ extract_settings
    \/ extract_gif_capture
    \/ ExtractStageEnd
    \/ create_buffer
    \/ PrepareStageEnd
    \/ DispatchGifCapture_run
    \/ write_gif
    \/ save_gif_on_state
    \/ GetGifDataStageEnd

Spec == Init /\ [][Next]_vars

\* The host keeps running frames while the process lives.
FairSpec == Spec /\ WF_vars(Next)

----------------------------------------------------------------------------
\* GifCaptureSettings::new, called on its own.

MinSpeed == 1
MaxSpeed == 30
SpeedMargin == 2

\* A path on the file system: whether it exists, and whether its parent
\* directory does.  A path that exists has a parent that exists.
Paths == {p \in [exists : BOOLEAN, parent_exists : BOOLEAN] : p.exists => p.parent_exists}

Speeds == (MinSpeed - SpeedMargin)..(MaxSpeed + SpeedMargin)

Err(reason) == [ok |-> FALSE, reason |-> reason]
Ok(value) == [ok |-> TRUE, value |-> value]

GifCaptureSettings_new(duration, path, repeat, speed) ==
    IF ~path.exists THEN Err("Path doesn't exist.")
    ELSE IF speed < MinSpeed \/ speed > MaxSpeed
         THEN Err("Speed must be within range of 1 to 30")
    ELSE Ok([duration |-> duration, path |-> path, repeat |-> repeat, speed |-> speed])

\* The plugin at rest, while a function is called on its own.
Idle == InitPlugin({[duration |-> 0, repeat |-> Infinite, speed |-> DefaultSpeed]})

NewInit ==
    /\ Idle
    /\ call \in [fn : {"new"}, duration : 0..MaxDuration, path : Paths,
                 repeat : Repeats, speed : Speeds, ret : {None}]

CallNew ==
    /\ call.fn = "new" /\ call.ret = None
    /\ call' = [call EXCEPT
                  !.ret = Some(GifCaptureSettings_new(call.duration, call.path,
                                                      call.repeat, call.speed))]
    /\ UNCHANGED <<pc, tick, events, surface, timer, settings, render_settings, state,
                   frames, buffer, commands, ran, file, hist>>

NewNext == CallNew

NewSpec == NewInit /\ [][NewNext]_vars

----------------------------------------------------------------------------
\* get_buffer_size and create_buffer's buffer size, called on their own for a
\* window of the given width and height.

MaxWidth == 130
MaxHeight == 2

BufferInit ==
    /\ Idle
    /\ call \in [fn : {"get_buffer_size", "create_buffer"}, width : 0..MaxWidth,
                 height : 0..MaxHeight, ret : {None}]

CallGetBufferSize ==
    /\ call.fn = "get_buffer_size" /\ call.ret = None
    /\ call' = [call EXCEPT !.ret = Some(get_buffer_size(call.width, call.height))]
    /\ UNCHANGED <<pc, tick, events, surface, timer, settings, render_settings, state,
                   frames, buffer, commands, ran, file, hist>>

CallCreateBuffer ==
    /\ call.fn = "create_buffer" /\ call.ret = None
    /\ call' = [call EXCEPT !.ret = Some(BufferDescriptorSize(call.width, call.height))]
    /\ UNCHANGED <<pc, tick, events, surface, timer, settings, render_settings, state,
                   frames, buffer, commands, ran, file, hist>>

BufferNext == CallGetBufferSize \/ CallCreateBuffer

BufferSpec == BufferInit /\ [][BufferNext]_vars

----------------------------------------------------------------------------
\* The de-padding step of write_gif, on the bytes of a mapped buffer.

MaxFrameWidth == 2
MaxFrameHeight == 2
MaxSlope == 3
MaxOffset == 3

RECURSIVE Chunks(_, _)
\* slice.chunks(n) for n > 0: consecutive chunks of n elements, the last one shorter
\* when n does not divide the length.
Chunks(data, n) ==
    IF data = <<>> THEN <<>>
    ELSE IF Len(data) <= n THEN <<data>>
    ELSE <<SubSeq(data, 1, n)>> \o Chunks(SubSeq(data, n + 1, Len(data)), n)

RECURSIVE Flatten(_)
Flatten(ss) == IF ss = <<>> THEN <<>> ELSE Head(ss) \o Flatten(Tail(ss))

Panic == [panic |-> TRUE, data |-> <<>>]
Returns(data) == [panic |-> FALSE, data |-> data]

\* A variant that cuts the chunks at the unpadded row length.
DepadRowsChunkUnpadded(padded_data, unpadded_bytes_per_row, padded_bytes_per_row) ==
    IF unpadded_bytes_per_row = 0 THEN Panic
    ELSE LET chunks == Chunks(padded_data, unpadded_bytes_per_row) IN
         IF \E i \in 1..Len(chunks) : Len(chunks[i]) < unpadded_bytes_per_row THEN Panic
         ELSE Returns(Flatten([i \in 1..Len(chunks) |->
                                 SubSeq(chunks[i], 1, unpadded_bytes_per_row)]))

\* padded_data.chunks(padded).map(|chunk| &chunk[..unpadded]).flatten().collect():
\* chunks(0) panics, and so does slicing a chunk shorter than the unpadded row.
DepadRows(padded_data, unpadded_bytes_per_row, padded_bytes_per_row) ==
    IF padded_bytes_per_row = 0 THEN Panic
    ELSE LET chunks == Chunks(padded_data, padded_bytes_per_row) IN
         IF \E i \in 1..Len(chunks) : Len(chunks[i]) < unpadded_bytes_per_row THEN Panic
         ELSE Returns(Flatten([i \in 1..Len(chunks) |->
                                 SubSeq(chunks[i], 1, unpadded_bytes_per_row)]))

\* The padded row layout the texture-to-buffer copy writes (bytes_per_row =
\* padded_bytes_per_row): every row of the frame followed by fill bytes.
PadRows(frame, unpadded_bytes_per_row, padded_bytes_per_row, height, fill) ==
    Flatten([r \in 1..height |->
               SubSeq(frame, (r - 1) * unpadded_bytes_per_row + 1, r * unpadded_bytes_per_row)
               \o [j \in 1..(padded_bytes_per_row - unpadded_bytes_per_row) |-> fill]])

\* A tightly packed frame of n bytes.
PatternFrame(n, slope, offset) == [i \in 1..n |-> (slope * i + offset) % 256]

DepadInit ==
    /\ Idle
    /\ \E w \in 1..MaxFrameWidth, h \in 1..MaxFrameHeight,
          slope \in 0..MaxSlope, offset \in 0..MaxOffset, fill \in {0, 255} :
         call = [fn |-> "depad", width |-> w, height |-> h, fill |-> fill,
                 frame |-> PatternFrame(PixelSize * w * h, slope, offset), ret |-> None]

CallDepad ==
    /\ call.fn = "depad" /\ call.ret = None
    /\ LET size == get_buffer_size(call.width, call.height)
           padded_data == PadRows(call.frame, size[1], size[2], call.height, call.fill)
       IN call' = [call EXCEPT !.ret = Some(DepadRows(padded_data, size[1], size[2]))]
    /\ UNCHANGED <<pc, tick, events, surface, timer, settings, render_settings, state,
                   frames, buffer, commands, ran, file, hist>>

DepadNext == CallDepad

DepadSpec == DepadInit /\ [][DepadNext]_vars

----------------------------------------------------------------------------
\* Properties.

IsPrefix(a, b) == Len(a) <= Len(b) /\ SubSeq(b, 1, Len(a)) = a

\* The state machine has been evaluated in this tick (the Extract stage ended)
\* and the tick is still running.
AfterExtract == pc \in {"prepare", "prepare_end", "render", "get_gif_data"}

\* The tick has ended, normally or by a panic.
TickOver == tick > 0 /\ pc \in {"begin", "panicked"}

\* The file's frames, as the stored frames they were made from.
FileSources(f) == [i \in 1..Len(f.frames) |-> f.frames[i].src]

\* C1: the frame store gains a frame in a tick only if the capture state
\* during that tick is CurrentlyCapturing; in a tick whose state is Off or
\* JustFinishedCapturing its length is unchanged.
C1_FramesGrowOnlyWhileCapturing ==
    [][Len(frames') # Len(frames) => state = CurrentlyCapturing]_vars

\* C2: after every tick in which save_gif ran and returned Ok, the state is
\* Off and the frame store is empty.
C2_EncodeResetsStateAndClearsFrames ==
    (pc = "begin" /\ hist.encodesThisTick > 0 /\ hist.saved = "Ok")
        => (state = Off /\ frames = <<>>)

\* C3: save_gif is called at most once in a tick, only in a tick in which
\* extract_gif_capture set the state to JustFinishedCapturing, and between two
\* consecutive calls there is a tick whose state was CurrentlyCapturing.
C3_EncodeOncePerCycle ==
    /\ hist.encodesThisTick <= 1
    /\ hist.encodesThisTick > 0 => hist.jfThisTick
    /\ ~hist.encodeNoCap

\* C3 witness: a second save_gif call has been made, at the end of a capture.
C3_Witness ==
    hist.encodes >= 2 /\ hist.capAtEncode > 0 /\ pc = "begin" /\ state = Off

\* C4: the state is set to JustFinishedCapturing in a tick only if the timer
\* reports just-finished in that tick and the state before the tick was
\* CurrentlyCapturing; an expiry observed while Off leaves the state Off.
C4_JustFinishedOnlyFromCapturing ==
    state = JustFinishedCapturing
        => (TimerJustFinished(timer) /\ hist.stateAtBegin = CurrentlyCapturing)

\* C5: in every tick in which a start event is observed, whatever the state
\* before, the state after the Extract stage is CurrentlyCapturing and the
\* timer's elapsed time is 0; a start while CurrentlyCapturing never leaves
\* that state during the tick and removes no frame from the frame store.
C5_StartAlwaysRestarts ==
    /\ (events > 0 /\ AfterExtract)
           => (state = CurrentlyCapturing /\ timer.elapsed = 0 /\ ~timer.finished)
    /\ (events > 0 /\ tick > 0 /\ hist.stateAtBegin = CurrentlyCapturing)
           => (state = CurrentlyCapturing /\ IsPrefix(hist.framesAtBegin, frames))

\* C5 witness: a start observed in the tick in which the running capture's
\* timer expired, with frames already stored: the capture goes on.
C5_Witness ==
    /\ events > 0 /\ pc = "get_gif_data" /\ ran = {"write_gif"}
    /\ hist.stateAtBegin = CurrentlyCapturing
    /\ state = CurrentlyCapturing /\ timer.elapsed = 0
    /\ Len(hist.framesAtBegin) >= 2 /\ Len(frames) = Len(hist.framesAtBegin) + 1

\* A tick is left in which the capture can run out.
Room == tick + (IF settings.duration = 0 THEN 1 ELSE settings.duration) <= MaxTicks

\* C6: once the state is CurrentlyCapturing and no further start arrives, the
\* state stays CurrentlyCapturing on every tick while elapsed < duration, it
\* eventually becomes JustFinishedCapturing, and JustFinishedCapturing is
\* produced at most once per timer reset.
C6_CapturingUntilJustFinished ==
    /\ []((AfterExtract /\ events = 0 /\ hist.stateAtBegin = CurrentlyCapturing
             /\ timer.elapsed < timer.duration) => state = CurrentlyCapturing)
    /\ [](hist.jfSinceReset <= 1)
    /\ (pc = "begin" /\ state = CurrentlyCapturing /\ Room)
          ~> (state = JustFinishedCapturing \/ (pc = "update" /\ events > 0))

\* C7: in a tick during CurrentlyCapturing whose surface is absent or has no
\* current texture, no frame is appended, nothing panics and the state
\* remains CurrentlyCapturing.
C7_MissingSurfaceSkipsTick ==
    (tick > 0 /\ state = CurrentlyCapturing /\ surface # "ok"
       /\ pc \in {"get_gif_data", "begin", "panicked"})
        => (pc # "panicked" /\ frames = hist.framesAtBegin)

\* C8: when the encoder fails in a JustFinishedCapturing tick, save_gif
\* returns an error value, the state is reset to Off and the frame store is
\* cleared; the run neither stays in JustFinishedCapturing nor reports Ok.
C8_EncodeFailureReported ==
    (TickOver /\ hist.encodesThisTick > 0 /\ hist.ioKind # "ok")
        => (hist.saved = "Err" /\ pc # "panicked" /\ state = Off /\ frames = <<>>)

\* C9: with the surface present in every tick, the number of frames written
\* to the file for a capture session equals the number of ticks spent in
\* CurrentlyCapturing during that session.
C9_FileFramesEqualCapturingTicks ==
    (pc = "begin" /\ hist.encodesThisTick > 0 /\ hist.ioKind = "ok" /\ hist.allOk
       /\ hist.capAtEncode > 0)
        => Len(file[1].frames) = hist.capAtEncode

\* C10: whenever save_gif returns Ok, the file holds exactly the frames the
\* frame store held at encode time, in the same order.
C10_OkMeansAllFramesWritten ==
    hist.saved = "Ok" => (file # None /\ FileSources(file[1]) = hist.storeAtEncode)

\* C11: the repeat setting written into the file equals the repeat mode of
\* the capture settings in use, for Infinite and for every Finite(n).
C11_FileRepeatFromSettings ==
    (hist.saved = "Ok" /\ hist.ioKind = "ok")
        => file[1].repeat = render_settings[1].repeat

\* C12: GifCaptureSettings::new succeeds exactly when the parent directory of
\* the path exists and speed is in [1,30]; it then returns settings equal to
\* the arguments, and otherwise an error carrying a reason.
C12_NewValidatesParentAndSpeed ==
    (call.fn = "new" /\ call.ret # None) =>
        LET r == call.ret[1] IN
        /\ r.ok <=> (call.path.parent_exists /\ call.speed \in MinSpeed..MaxSpeed)
        /\ r.ok => r.value = [duration |-> call.duration, path |-> call.path,
                              repeat |-> call.repeat, speed |-> call.speed]
        /\ ~r.ok => r.reason # ""

\* C13: for every window width, get_buffer_size yields unpadded_bytes_per_row
\* = 4 * width and a padded_bytes_per_row that is >= it, is a multiple of the
\* row alignment and exceeds it by less than one alignment unit.
C13_PaddedRowAligned ==
    (call.fn = "get_buffer_size" /\ call.ret # None) =>
        LET unpadded == call.ret[1][1]
            padded == call.ret[1][2]
        IN /\ unpadded = 4 * call.width
           /\ padded >= unpadded
           /\ padded % COPY_BYTES_PER_ROW_ALIGNMENT = 0
           /\ padded - unpadded < COPY_BYTES_PER_ROW_ALIGNMENT

\* C13 witness: a row longer than one alignment unit that needs padding.
C13_Witness ==
    /\ call.fn = "get_buffer_size" /\ call.ret # None
    /\ call.ret[1][1] > COPY_BYTES_PER_ROW_ALIGNMENT
    /\ call.ret[1][2] > call.ret[1][1]

\* C14: de-padding round trip: a tightly packed frame of height rows (height,
\* width >= 1), padded row by row to padded_bytes_per_row and passed through
\* the de-padding step of write_gif, comes back byte for byte, with length
\* unpadded_bytes_per_row * height.
C14_DepadRoundTrip ==
    (call.fn = "depad" /\ call.ret # None) =>
        /\ ~call.ret[1].panic
        /\ call.ret[1].data = call.frame
        /\ Len(call.ret[1].data) = 4 * call.width * call.height

\* C14 witness: a frame of two rows whose bytes differ from each other and
\* from the fill bytes has been de-padded.
C14_Witness ==
    /\ call.fn = "depad" /\ call.ret # None
    /\ call.height = 2 /\ call.width = 2
    /\ call.frame[1] # call.frame[2] /\ call.frame[1] # call.frame[9]
    /\ \A i \in 1..Len(call.frame) : call.frame[i] # call.fill

\* C15: the readback buffer create_buffer makes has size exactly
\* padded_bytes_per_row * height for the window's dimensions.
C15_BufferHoldsPaddedRows ==
    (call.fn = "create_buffer" /\ call.ret # None /\ call.width >= 1 /\ call.height >= 1) =>
        call.ret[1] = align_copy_bytes_per_row(4 * call.width) * call.height

\* C16: when a start event is observed in the tick in which the timer reports
\* just-finished, the restart wins: the state is never JustFinishedCapturing
\* in that tick, after the Extract stage it is CurrentlyCapturing with elapsed
\* time 0, no encode runs, and the frames already stored stay.
C16_RestartWinsOverExpiry ==
    (tick > 0 /\ hist.expired /\ events > 0) =>
        /\ state # JustFinishedCapturing
        /\ ~hist.jfThisTick
        /\ hist.encodesThisTick = 0
        /\ IsPrefix(hist.framesAtBegin, frames)
        /\ (AfterExtract \/ pc = "begin")
              => (state = CurrentlyCapturing /\ timer.elapsed = 0 /\ ~timer.finished)

\* C16 witness: the tick in which a running capture's timer expired and a
\* start event was seen has ended, with the earlier frames still stored.
C16_Witness ==
    /\ hist.expired /\ events > 0 /\ pc = "begin"
    /\ hist.stateAtBegin = CurrentlyCapturing /\ state = CurrentlyCapturing
    /\ Len(hist.framesAtBegin) >= 1 /\ Len(frames) = Len(hist.framesAtBegin) + 1

\* C17: within a tick the Extract stage, the render graph node, write_gif and
\* save_gif_on_state run in this order; in the tick whose state is
\* JustFinishedCapturing, save_gif_on_state never reads the frame store before
\* write_gif of that tick has run.
C17_WriteBeforeSaveCheck ==
    /\ ran # {} => pc \in {"get_gif_data", "panicked"}
    /\ ("save_gif_on_state" \in ran /\ hist.encodesThisTick > 0) => "write_gif" \in ran

\* C18: encoding leaves the frame store unchanged: after save_gif has run,
\* every stored frame equals its value before the call, and the number and
\* order of the stored frames are the same.
C18_EncodeLeavesStoreUnchanged ==
    [][hist'.encodes > hist.encodes => frames' = frames]_vars

\* C18 witness: save_gif has encoded a store of two or more frames, which are
\* still the first frames of the store.
C18_Witness ==
    /\ hist.saved = "Ok" /\ hist.ioKind = "ok"
    /\ Len(hist.storeAtEncode) >= 2 /\ Len(file[1].frames) >= 2
    /\ IsPrefix(hist.storeAtEncode, frames)

\* C19: the readback buffer a tick uses was created in that tick, and it is
\* unmapped again in that tick after its bytes were copied: no buffer is still
\* mapped when the tick ends.
C19_BufferUnmappedInItsTick ==
    /\ pc \in {"render", "get_gif_data"} => (buffer # None /\ buffer[1].tick = tick)
    /\ (pc = "get_gif_data" /\ "write_gif" \notin ran) => ~buffer[1].mapped
    /\ (pc = "begin" /\ buffer # None) => ~buffer[1].mapped

\* C20: JustFinishedCapturing never survives a tick: when a tick ends the
\* state is Off or CurrentlyCapturing, so no tick starts from
\* JustFinishedCapturing, and every tick in which save_gif runs has a timer
\* expiry of its own.
C20_JustFinishedConsumedInItsTick ==
    /\ pc = "begin" => state \in {Off, CurrentlyCapturing}
    /\ hist.stateAtBegin # JustFinishedCapturing
    /\ hist.encodesThisTick > 0 => hist.expired

\* C20 witness: the tick after a successful encode is running, and it began
\* in state Off.
C20_Witness ==
    /\ hist.encodes >= 1 /\ hist.saved = "Ok" /\ hist.encodesThisTick = 0
    /\ pc = "extract_settings" /\ hist.stateAtBegin = Off /\ hist.capAtEncode > 0
====
